---------------------------- MODULE Spec2Model ----------------------------
(***************************************************************************)
(* A model of run.py, the pi42 commodity buy script: the price callback    *)
(* (on_price / trade_logic / place_market_buy), the position polling loop, *)
(* the dashboard loop and the reconnecting main loop, together with the    *)
(* part of the exchange they talk to.                                      *)
(*                                                                         *)
(* Units.  Time is in whole seconds.  Prices are in hundredths of a rupee  *)
(* (PriceScale), so 9700 is the mark price 97.00; a price normalized for   *)
(* an INR pair is a whole number of rupees, so a multiple of PriceScale.   *)
(* Quantities are in thousandths (QtyScale), so MIN_QTY 0.005 is 5.        *)
(***************************************************************************)
EXTENDS Integers, Sequences, FiniteSets

(***************************************************************************)
(* Program constants                                                       *)
(***************************************************************************)
SYMBOLS == <<"XPTINR", "XPDINR">>

CAPITAL_PER_TRADE == 10000

RISE_PERCENT == 3

\* TP_PERCENT = 1.5, held in tenths of a percent
TP_PERMILLE == 15

TRADE_COOLDOWN == 20

\* MIN_QTY[sym] = 0.005 for both symbols, in thousandths
MIN_QTY(sym) == 5

\* timeout=15 of requests.post / requests.get
REQUEST_TIMEOUT == 15

\* time.sleep(10) of fetch_positions_loop
POLL_SLEEP == 10

\* time.sleep(5) of the main loop
RECONNECT_SLEEP == 5

\* API_SECRET: the script exits at start-up when it is missing
API_SECRET == "secret"

PriceScale == 100

QtyScale == 1000

(***************************************************************************)
(* Bounds of the model                                                     *)
(***************************************************************************)
\* the clock advances in steps of TickStep seconds
TickStep == 10

\* entries of one /v1/positions/OPEN response
MaxData == 2

\* positions the exchange holds open for one symbol
MaxPos == 2

\* connections counted
MaxConnects == 2

SymSet == {SYMBOLS[i] : i \in 1..Len(SYMBOLS)}

\* a symbol the exchange may stream that is not configured
OtherSyms == {"BTCINR"}

\* mark prices, in hundredths: 33.50 and 2,000,001.00 (too high for one
\* step of quantity)
PriceVals == {3350, 200000100}

\* the "p" field of a markPriceUpdate: missing, "", the number 0, or a
\* string holding a decimal number
PriceInputs ==
    {[kind |-> "missing", v |-> 0], [kind |-> "empty", v |-> 0],
     [kind |-> "num", v |-> 0], [kind |-> "str", v |-> 0]}
    \cup {[kind |-> "str", v |-> v] : v \in PriceVals}

\* the "s" field of a markPriceUpdate as it arrives ("" when it is missing)
RawSyms == {"XPTINR", "XPDINR", "xpdinr", ""} \cup OtherSyms

\* the markPriceUpdate events that arrive: the "s" and the "p" field
TickInputs == RawSyms \X PriceInputs

\* the events of the first symbol, with every price input
TradeTicks == {SYMBOLS[1]} \X PriceInputs

\* one event of the first symbol, at 33.50
OneTick == {<<SYMBOLS[1], [kind |-> "str", v |-> 3350]>>}

\* mark prices around the roundings of normalize_price and calculate_target,
\* in hundredths: 0.49 to 101.00, and 2,000,001.00 (too high for one step of
\* quantity)
TargetPrices ==
    {49, 50, 150, 250, 3300, 3349, 3350, 3449, 6650, 9950, 10000, 10100,
     200000100}

\* the events of the first symbol at those prices
TargetTicks ==
    {SYMBOLS[1]} \X {[kind |-> "str", v |-> v] : v \in TargetPrices}

\* Python's None where the code returns a number or None
None == -1

\* Python's None where the code holds a dict or None
PyNone == [none |-> TRUE]

\* the limit prices of the open BUY orders the exchange may hold, hundredths
ExOrderPrices == {10000}

\* the entries a /v1/positions/OPEN response may hold
PositionEntries == [contractPair : SymSet, positionId : 1..MaxPos]

\* the bodies of a /v1/positions/OPEN response: lists of entries
DataLists == UNION {[1..n -> PositionEntries] : n \in 0..MaxData}

\* how the HTTP request of an order ends: a response arrives after d
\* seconds, the response times out after the request went out, or the
\* connection fails before it goes out; and whether the exchange accepts an
\* order that reaches it
OrderOutcomes ==
    {[net |-> "response", d |-> 0, accepted |-> TRUE],
     [net |-> "response", d |-> 0, accepted |-> FALSE],
     [net |-> "response", d |-> TickStep, accepted |-> TRUE],
     [net |-> "timeout", d |-> 0, accepted |-> TRUE],
     [net |-> "connerr", d |-> 0, accepted |-> FALSE]}

Min(a, b) == IF a <= b THEN a ELSE b

Max(a, b) == IF a >= b THEN a ELSE b

(***************************************************************************)
(* State.  The code reads the clock only through differences: the test     *)
(* time.time() - last_trade[sym] < TRADE_COOLDOWN and the lengths of its   *)
(* sleeps.  The model keeps those differences: since_trade[sym] is         *)
(* time.time() - last_trade[sym], which stops counting at TRADE_COOLDOWN,  *)
(* and each sleeping loop holds the time its sleep has left.               *)
(***************************************************************************)
VARIABLES
    prices,      \* prices: a dict, symbol -> hundredths
    positions,   \* positions: a dict, symbol -> PyNone | a position entry
    orders,      \* orders: a dict, symbol -> the list of open orders
    since_trade, \* time.time() - last_trade[sym], up to TRADE_COOLDOWN
    pc_poll,     \* fetch_positions_loop: "request" | "sleep" | "dead"
    poll_idx,    \* the index in SYMBOLS of the symbol polled next
    poll_left,   \* what is left of its sleep
    pc_main,     \* the main loop: "connect" | "wait" | "sleep" | "dead"
    main_left,   \* what is left of its sleep
    ws,          \* the streaming connection: "up" | "down"
    emitted,     \* the subscribe requests emitted on this connection
    connects,    \* connections made so far, counted up to MaxConnects
    serverUp,    \* whether the streaming server is reachable
    exPos,       \* exchange: how many positions are open, per symbol
    exOrders,    \* exchange: the prices of the open BUY orders, per symbol
    last_order,  \* per symbol, when the latest order request went out
    last_sent    \* the latest order request sent

vars == <<prices, positions, orders, since_trade, pc_poll, poll_idx,
          poll_left, pc_main, main_left, ws, emitted, connects,
          serverUp, exPos, exOrders, last_order, last_sent>>

pollVars == <<pc_poll, poll_idx, poll_left>>

mainVars == <<pc_main, main_left, ws, emitted, connects>>

(***************************************************************************)
(* Python helpers                                                          *)
(***************************************************************************)
\* d[k] = v on a dict
DictSet(d, k, v) == [x \in DOMAIN d \cup {k} |-> IF x = k THEN v ELSE d[x]]

\* d.get(k) of a dict of numbers
DictGet(d, k) == IF k \in DOMAIN d THEN d[k] ELSE None

\* d.get(k) of a dict of dicts
DictGetPos(d, k) == IF k \in DOMAIN d THEN d[k] ELSE PyNone

\* "not x" of a number or None
Falsy(x) == x = None \/ x = 0

\* str.upper() on the symbols that arrive
Upper(raw) == IF raw = "xpdinr" THEN "XPDINR" ELSE raw

\* str.endswith("INR")
EndsWithINR(sym) == sym \in {"XPTINR", "XPDINR", "BTCINR"}

\* round() of the non-negative rational num / den: to nearest, ties to even
RoundHalfEven(num, den) ==
    LET q == num \div den
        r == num % den
    IN  IF 2 * r > den THEN q + 1
        ELSE IF 2 * r < den THEN q
        ELSE IF q % 2 = 0 THEN q ELSE q + 1

\* min() of a non-empty set of numbers
SetMin(S) == CHOOSE x \in S : \A y \in S : x <= y

(***************************************************************************)
(* Signature, price normalizer, target, quantity, order data               *)
(***************************************************************************)
\* generate_signature: None (here "") without a secret or a message, else
\* the digest
generate_signature(secret, message) ==
    IF secret = "" \/ message = "" THEN "" ELSE "hmac"

\* sign: None (here "") without API_SECRET or a query, else the digest
sign(query) ==
    IF API_SECRET = "" \/ query = "" THEN "" ELSE "hmac"

\* normalize_price of the price num / den rupees, in hundredths:
\* int(round(price, 0)) for an INR pair, round(price, 2) otherwise
normalize_price(sym, num, den) ==
    IF EndsWithINR(sym)
    THEN PriceScale * RoundHalfEven(num, den)
    ELSE RoundHalfEven(num * PriceScale, den)

\* the target with the percentage taken as a fraction of one thousand
\* rather than of one hundred: entry * (1 + TP_PERCENT / 1000)
calculate_target_Thousandth(sym, entry) ==
    normalize_price(sym, entry * (10000 + TP_PERMILLE), 10000 * PriceScale)

\* calculate_target: entry * (1 + TP_PERCENT / 100), normalized.  entry is
\* in hundredths.  Where the exact product lies half way between two whole
\* rupees (entry 100.00 -> 101.5) the binary product lies just below the
\* half (101.49999999999999) for the entries used here, so round() goes down.
calculate_target(sym, entry) ==
    LET num == entry * (1000 + TP_PERMILLE)
        den == 1000 * PriceScale
    IN  IF EndsWithINR(sym) /\ 2 * (num % den) = den
        THEN PriceScale * (num \div den)
        ELSE normalize_price(sym, num, den)

\* the quantity rounded up to the next step instead of down
calculate_order_qty_Ceil(sym, prc) ==
    LET price == DictGet(prc, sym)
        step  == MIN_QTY(sym)
    IN  IF Falsy(price) THEN None
        ELSE LET n   == ((CAPITAL_PER_TRADE * PriceScale * QtyScale)
                            \div (price * step)) + 1
                 qty == n * step
             IN  IF qty >= step THEN qty ELSE None

\* calculate_order_qty, in thousandths: floor((CAPITAL / price) / step) * step,
\* None without a price or below one step
calculate_order_qty(sym, prc) ==
    LET price == DictGet(prc, sym)
        step  == MIN_QTY(sym)
    IN  IF Falsy(price) THEN None
        ELSE LET n   == (CAPITAL_PER_TRADE * PriceScale * QtyScale)
                            \div (price * step)
                 qty == n * step
             IN  IF qty >= step THEN qty ELSE None

\* get_lowest_buy: the lowest price over the BUY orders that have one
get_lowest_buy(sym) ==
    IF sym \notin DOMAIN orders THEN None
    ELSE LET buys == {orders[sym][i].price : i \in
                        {j \in 1..Len(orders[sym]) :
                            /\ orders[sym][j].side = "BUY"
                            /\ ~Falsy(orders[sym][j].price)}}
         IN  IF buys # {} THEN SetMin(buys) ELSE None

\* get_trigger_price: lowest * (1 - RISE_PERCENT / 100), normalized
get_trigger_price(sym) ==
    LET lowest == get_lowest_buy(sym)
    IN  IF Falsy(lowest) THEN None
        ELSE normalize_price(sym, lowest * (100 - RISE_PERCENT),
                             100 * PriceScale)

(***************************************************************************)
(* The passage of time                                                     *)
(***************************************************************************)
\* a time since an event, d seconds later
Later(age, d) == Min(age + d, TRADE_COOLDOWN)

\* what is left of a sleep, d seconds later
Left(t, d) == Max(t - d, 0)

\* no order request sent yet.  Beside the params of the request: n counts
\* the requests modulo 2, branch is the branch of trade_logic that sent it,
\* exHeld whether the exchange held a position of the symbol then, gap the
\* time since the request before it for the same symbol went out (None
\* when there was none) and prev_ok whether place_market_buy returned True
\* for that one
NoOrder ==
    [n |-> 0, branch |-> "", exHeld |-> FALSE, gap |-> None,
     prev_ok |-> FALSE, symbol |-> "", side |-> "", type |-> "",
     price |-> None, quantity |-> None, entry |-> None,
     takeProfitPrice |-> None]

\* no order request sent yet for a symbol: age is the time since the latest
\* request went out, ok whether place_market_buy returned True for it
NeverSent == [sent |-> FALSE, age |-> TRADE_COOLDOWN, ok |-> FALSE]

\* the order log, d seconds later
OrdersLater(lo, d) ==
    [s \in DOMAIN lo |-> [lo[s] EXCEPT !.age = Later(@, d)]]

(***************************************************************************)
(* Placing an order                                                        *)
(***************************************************************************)
\* place_market_buy returned False before any request was made
NoCall ==
    [ret |-> FALSE, sent |-> FALSE, elapsed |-> 0, params |-> NoOrder]

\* True returned from a finally clause: whenever the request went out
PostReturns_AfterAnyRequest(net) == net # "connerr"

\* the try block of place_market_buy: True when requests.post returns a
\* response, whatever its status, False when it raises
PostReturns(net) == net = "response"

\* place_market_buy on the prices prc, the request ending as net after d
\* seconds: what it returns, whether the request went out, how long the
\* call took and the params of the request
place_market_buy(sym, prc, net, d) ==
    IF sym \notin DOMAIN prc THEN NoCall
    ELSE LET qty == calculate_order_qty(sym, prc)
         IN  IF Falsy(qty) THEN NoCall
             ELSE LET entry == normalize_price(sym, prc[sym], PriceScale)
                      tp    == calculate_target(sym, entry)
                      signature == generate_signature(API_SECRET, "body")
                  IN  IF signature = "" THEN NoCall
                      ELSE [ret     |-> PostReturns(net),
                            sent    |-> net # "connerr",
                            elapsed |-> IF net = "response" THEN d
                                        ELSE IF net = "timeout"
                                             THEN REQUEST_TIMEOUT
                                             ELSE 0,
                            params  |-> [NoOrder EXCEPT
                                          !.symbol = sym,
                                          !.side = "BUY",
                                          !.type = "MARKET",
                                          !.price = prc[sym],
                                          !.quantity = qty,
                                          !.entry = entry,
                                          !.takeProfitPrice = tp]]

(***************************************************************************)
(* Trade logic                                                             *)
(***************************************************************************)
\* the cooldown test with the comparison the wrong way round
CooldownActive_Reversed(sym) == since_trade[sym] > TRADE_COOLDOWN

\* one cooldown for all symbols: the cooldown of any symbol holds up sym
CooldownActive_AnySymbol(sym) ==
    \E s \in DOMAIN since_trade : since_trade[s] < TRADE_COOLDOWN

\* time.time() - last_trade[sym] < TRADE_COOLDOWN
CooldownActive(sym) == since_trade[sym] < TRADE_COOLDOWN

\* the trigger asked for before the position is looked at
NoPosition_AfterTrigger(sym) ==
    /\ DictGetPos(positions, sym) = PyNone
    /\ ~Falsy(get_trigger_price(sym))

\* "not pos" of positions.get(sym)
NoPosition(sym) == DictGetPos(positions, sym) = PyNone

\* trade_logic reading last_trade.get(sym, 0) in place of last_trade[sym]:
\* a symbol without an entry raises no KeyError and is out of cooldown
trade_logic_GetDefault(sym, prc, net, d) ==
    IF sym \notin DOMAIN prc
    THEN [branch |-> "noprice", call |-> NoCall]
    ELSE IF sym \in DOMAIN since_trade /\ CooldownActive(sym)
    THEN [branch |-> "cooldown", call |-> NoCall]
    ELSE IF NoPosition(sym)
    THEN [branch |-> "first", call |-> place_market_buy(sym, prc, net, d)]
    ELSE LET trigger == get_trigger_price(sym)
         IN  IF Falsy(trigger)
             THEN [branch |-> "notrigger", call |-> NoCall]
             ELSE IF prc[sym] <= trigger
             THEN [branch |-> "add",
                   call |-> place_market_buy(sym, prc, net, d)]
             ELSE [branch |-> "above", call |-> NoCall]

\* trade_logic on the prices prc: the branch it takes and the call of
\* place_market_buy it makes there
trade_logic(sym, prc, net, d) ==
    IF sym \notin DOMAIN prc
    THEN [branch |-> "noprice", call |-> NoCall]
    ELSE IF sym \notin DOMAIN since_trade
    THEN [branch |-> "keyerror", call |-> NoCall]
    ELSE IF CooldownActive(sym)
    THEN [branch |-> "cooldown", call |-> NoCall]
    ELSE IF NoPosition(sym)
    THEN [branch |-> "first", call |-> place_market_buy(sym, prc, net, d)]
    ELSE LET trigger == get_trigger_price(sym)
         IN  IF Falsy(trigger)
             THEN [branch |-> "notrigger", call |-> NoCall]
             ELSE IF prc[sym] <= trigger
             THEN [branch |-> "add",
                   call |-> place_market_buy(sym, prc, net, d)]
             ELSE [branch |-> "above", call |-> NoCall]

\* whether the exchange holds a position of sym
ExHeld(sym) == sym \in DOMAIN exPos /\ exPos[sym] > 0

\* the latest order request of sym in the order log
LastOrder(sym) ==
    IF sym \in DOMAIN last_order THEN last_order[sym] ELSE NeverSent

\* "not price" of data.get("p")
PriceFalsy(pin) ==
    pin.kind \in {"missing", "empty"} \/ (pin.kind = "num" /\ pin.v = 0)

\* on_price(data) with data["s"] = raw and data["p"] = pin, and through it
\* trade_logic and place_market_buy; the exchange accepts or rejects an
\* order that reaches it
on_price(raw, pin, net, d, accepted) ==
    /\ LET sym == Upper(raw)
       IN  IF sym = "" \/ PriceFalsy(pin)
           THEN UNCHANGED vars
           ELSE LET prc  == DictSet(prices, sym, pin.v)
                    tl   == trade_logic(sym, prc, net, d)
                    call == tl.call
                    el   == call.elapsed
                IN  /\ prices' = prc
                    /\ since_trade' =
                         [s \in DOMAIN since_trade |->
                            IF call.ret /\ s = sym THEN 0
                            ELSE Later(since_trade[s], el)]
                    /\ last_order' =
                         [s \in DOMAIN last_order |->
                            IF call.sent /\ s = sym
                            THEN [sent |-> TRUE, age |-> el,
                                  ok |-> call.ret]
                            ELSE [last_order[s] EXCEPT
                                    !.age = Later(@, el)]]
                    /\ last_sent' =
                         IF call.sent
                         THEN [call.params EXCEPT
                                 !.n = 1 - last_sent.n,
                                 !.branch = tl.branch,
                                 !.exHeld = ExHeld(sym),
                                 !.gap = IF LastOrder(sym).sent
                                         THEN LastOrder(sym).age
                                         ELSE None,
                                 !.prev_ok = LastOrder(sym).ok]
                         ELSE last_sent
                    /\ exPos' = IF call.sent /\ accepted
                                      /\ sym \in DOMAIN exPos
                                THEN [exPos EXCEPT ![sym] = Max(@, 1)]
                                ELSE exPos
                    /\ poll_left' = Left(poll_left, el)
                    /\ main_left' = Left(main_left, el)
                    /\ UNCHANGED <<positions, orders, pc_poll, poll_idx,
                                   pc_main, ws, emitted, connects,
                                   serverUp, exOrders>>

(***************************************************************************)
(* fetch_positions_loop                                                    *)
(***************************************************************************)
\* the responses of GET /v1/positions/OPEN for sym: an error status, or 200
\* with open positions, one of sym among them when it has one; the exchange
\* may or may not leave out the positions of the other symbols
PositionResponses(sym) ==
    {[status |-> 500, data |-> << >>]}
    \cup {[status |-> 200, data |-> data] : data \in
            {dl \in DataLists :
                /\ \A i \in 1..Len(dl) :
                      dl[i].positionId <= exPos[dl[i].contractPair]
                /\ exPos[sym] > 0 <=> \E i \in 1..Len(dl) :
                                        dl[i].contractPair = sym}}

\* the first entry taken whatever its contractPair
FirstMatch_Unfiltered(data, sym) == data[1]

\* next((p for p in data if p.get("contractPair") == sym), None)
FirstMatch(data, sym) ==
    LET hits == {i \in 1..Len(data) : data[i].contractPair = sym}
    IN  IF hits = {} THEN PyNone ELSE data[SetMin(hits)]

\* what one pass of the loop body stores in positions[sym]
FetchResult(sym, resp) ==
    IF resp.status # 200 THEN PyNone
    ELSE IF resp.data = << >> THEN PyNone
    ELSE FirstMatch(resp.data, sym)

\* the exception not caught: the thread ends
OnPollException_Uncaught == "dead"

\* where the loop goes when the try block raises: "except Exception"
\* catches it and the loop goes on to its sleep
OnPollException == "sleep"

\* one pass of the for loop: the request for SYMBOLS[poll_idx] is answered
PollRequest(resp) ==
    /\ pc_poll = "request"
    /\ LET sym == SYMBOLS[poll_idx]
       IN  positions' = IF sign("query") = "" THEN positions
                        ELSE DictSet(positions, sym, FetchResult(sym, resp))
    /\ IF poll_idx < Len(SYMBOLS)
       THEN /\ poll_idx' = poll_idx + 1
            /\ UNCHANGED <<pc_poll, poll_left>>
       ELSE /\ pc_poll' = "sleep"
            /\ poll_idx' = 1
            /\ poll_left' = POLL_SLEEP
    /\ UNCHANGED <<prices, orders, since_trade, mainVars,
                   serverUp, exPos, exOrders, last_order, last_sent>>

\* the exception handled like an error status: None is stored for the
\* symbol whose request raised
PollException_StoresNone ==
    /\ pc_poll = "request"
    /\ positions' = DictSet(positions, SYMBOLS[poll_idx], PyNone)
    /\ pc_poll' = OnPollException
    /\ poll_idx' = 1
    /\ poll_left' = POLL_SLEEP
    /\ UNCHANGED <<prices, orders, since_trade,
                   mainVars, serverUp, exPos, exOrders, last_order, last_sent>>

\* the request for SYMBOLS[poll_idx], or the decoding of its answer, raises
PollException ==
    /\ pc_poll = "request"
    /\ pc_poll' = OnPollException
    /\ poll_idx' = 1
    /\ poll_left' = POLL_SLEEP
    /\ UNCHANGED <<prices, positions, orders, since_trade,
                   mainVars, serverUp, exPos, exOrders, last_order, last_sent>>

\* time.sleep(10) returns and the while loop starts over
PollWake ==
    /\ pc_poll = "sleep"
    /\ poll_left = 0
    /\ pc_poll' = "request"
    /\ poll_idx' = 1
    /\ UNCHANGED <<prices, positions, orders, since_trade, poll_left,
                   mainVars, serverUp, exPos, exOrders,
                   last_order, last_sent>>

(***************************************************************************)
(* display_loop                                                            *)
(***************************************************************************)
\* one row of the dashboard: LTP, Trigger, Next Qty and the position
DashboardRow(sym) ==
    [price   |-> DictGet(prices, sym),
     pos     |-> DictGetPos(positions, sym),
     trigger |-> get_trigger_price(sym),
     qty     |-> calculate_order_qty(sym, prices)]

\* one pass of display_loop: it prints the rows and sleeps
display_loop ==
    /\ \A i \in 1..Len(SYMBOLS) : DashboardRow(SYMBOLS[i]).price >= None
    /\ UNCHANGED vars

(***************************************************************************)
(* The streaming connection and the main loop                              *)
(***************************************************************************)
\* s.lower() + "@markPrice"
Stream(s) ==
    CASE s = "XPTINR" -> "xptinr@markPrice"
      [] s = "XPDINR" -> "xpdinr@markPrice"
      [] OTHER -> s

\* a subscribe request for the first symbol only
connect_FirstOnly ==
    [event  |-> "subscribe",
     params |-> <<Stream(SYMBOLS[1])>>]

\* the connect handler: the subscribe request it emits
connect ==
    [event  |-> "subscribe",
     params |-> [i \in 1..Len(SYMBOLS) |-> Stream(SYMBOLS[i])]]

\* the exception not caught: the main thread ends
OnMainException_Uncaught == "dead"

\* where the main loop goes when sio.connect or sio.wait raises: it sleeps
OnMainException == "sleep"

\* where the main loop goes when sio.wait returns
OnWaitReturn == "connect"

\* sio.connect(WS_URL): the connection is made and the connect handler
\* runs, or it raises
MainConnect ==
    /\ pc_main = "connect"
    /\ IF serverUp
       THEN /\ ws' = "up"
            /\ emitted' = Append(emitted, connect)
            /\ connects' = Min(connects + 1, MaxConnects)
            /\ pc_main' = "wait"
            /\ UNCHANGED main_left
       ELSE /\ pc_main' = OnMainException
            /\ main_left' = RECONNECT_SLEEP
            /\ UNCHANGED <<ws, emitted, connects>>
    /\ UNCHANGED <<prices, positions, orders, since_trade, pollVars,
                   serverUp, exPos, exOrders, last_order, last_sent>>

\* sio.wait() ends after the connection was lost: it returns or it raises
MainWait(raises) ==
    /\ pc_main = "wait"
    /\ ws = "down"
    /\ IF raises
       THEN /\ pc_main' = OnMainException
            /\ main_left' = RECONNECT_SLEEP
       ELSE /\ pc_main' = OnWaitReturn
            /\ UNCHANGED main_left
    /\ UNCHANGED <<prices, positions, orders, since_trade, pollVars,
                   ws, emitted, connects, serverUp, exPos, exOrders,
                   last_order, last_sent>>

\* time.sleep(5) returns and the while loop starts over
MainWake ==
    /\ pc_main = "sleep"
    /\ main_left = 0
    /\ pc_main' = "connect"
    /\ UNCHANGED <<prices, positions, orders, since_trade, pollVars,
                   main_left, ws, emitted, connects, serverUp, exPos,
                   exOrders, last_order, last_sent>>

\* socketio.Client(reconnection=True): while sio.wait() blocks, the client
\* connects again by itself and the connect handler runs again
LibReconnect ==
    /\ pc_main = "wait"
    /\ ws = "down"
    /\ serverUp
    /\ ws' = "up"
    /\ emitted' = Append(emitted, connect)
    /\ connects' = Min(connects + 1, MaxConnects)
    /\ UNCHANGED <<prices, positions, orders, since_trade, pollVars,
                   pc_main, main_left, serverUp, exPos, exOrders,
                   last_order, last_sent>>

(***************************************************************************)
(* The environment: the clock, the network, the exchange                   *)
(***************************************************************************)
\* TickStep seconds pass
Tick ==
    /\ since_trade' = [s \in DOMAIN since_trade |->
                          Later(since_trade[s], TickStep)]
    /\ last_order' = OrdersLater(last_order, TickStep)
    /\ UNCHANGED last_sent
    /\ poll_left' = Left(poll_left, TickStep)
    /\ main_left' = Left(main_left, TickStep)
    /\ UNCHANGED <<prices, positions, orders, pc_poll, poll_idx, pc_main,
                   ws, emitted, connects, serverUp, exPos, exOrders>>

\* the streaming connection is lost
Drop ==
    /\ ws = "up"
    /\ ws' = "down"
    /\ emitted' = << >>
    /\ UNCHANGED <<connects, prices, positions, orders, since_trade, pollVars,
                   pc_main, main_left, serverUp, exPos, exOrders,
                   last_order, last_sent>>

\* the streaming server becomes unreachable, or reachable again
ServerToggle ==
    /\ serverUp' = ~serverUp
    /\ IF serverUp /\ ws = "up"
       THEN ws' = "down" /\ emitted' = << >>
       ELSE UNCHANGED <<ws, emitted>>
    /\ UNCHANGED <<connects, prices, positions, orders, since_trade, pollVars,
                   pc_main, main_left, exPos, exOrders,
                   last_order, last_sent>>

\* a position of sym is opened on the exchange by other means than this
\* program's orders
ExchangeOpen(sym) ==
    /\ exPos[sym] < MaxPos
    /\ exPos' = [exPos EXCEPT ![sym] = @ + 1]
    /\ UNCHANGED <<prices, positions, orders, since_trade, pollVars,
                   mainVars, serverUp, exOrders, last_order, last_sent>>

\* the exchange closes the positions of sym (the take-profit is hit)
ExchangeClose(sym) ==
    /\ exPos[sym] > 0
    /\ exPos' = [exPos EXCEPT ![sym] = 0]
    /\ UNCHANGED <<prices, positions, orders, since_trade, pollVars,
                   mainVars, serverUp, exOrders, last_order, last_sent>>

\* an open BUY order for sym at price p appears on the exchange
ExchangeOpenOrder(sym, p) ==
    /\ p \notin exOrders[sym]
    /\ exOrders' = [exOrders EXCEPT ![sym] = @ \cup {p}]
    /\ UNCHANGED <<prices, positions, orders, since_trade, pollVars,
                   mainVars, serverUp, exPos, last_order, last_sent>>

(***************************************************************************)
(* The specifications                                                      *)
(***************************************************************************)
Init ==
    /\ prices = << >>
    /\ positions = << >>
    /\ orders = << >>
    /\ since_trade = [s \in SymSet |-> TRADE_COOLDOWN]
    /\ pc_poll = "request"
    /\ poll_idx = 1
    /\ poll_left = 0
    /\ pc_main = "connect"
    /\ main_left = 0
    /\ ws = "down"
    /\ emitted = << >>
    /\ connects = 0
    /\ serverUp = TRUE
    /\ exPos = [s \in SymSet |-> 0]
    /\ exOrders = [s \in SymSet |-> {}]
    /\ last_order = [s \in SymSet |-> NeverSent]
    /\ last_sent = NoOrder

\* the events of ticks are handled, their order requests ending as in outs
OnPrice(ticks, outs) ==
    \E tick \in ticks, out \in outs :
        on_price(tick[1], tick[2], out.net, out.d, out.accepted)

\* an event arrives over the streaming connection
Deliver(ticks, outs) ==
    /\ ws = "up"
    /\ OnPrice(ticks, outs)

Poll ==
    \/ \E resp \in PositionResponses(SYMBOLS[poll_idx]) : PollRequest(resp)
    \/ PollException
    \/ PollWake

Main ==
    \/ MainConnect
    \/ \E raises \in BOOLEAN : MainWait(raises)
    \/ MainWake
    \/ LibReconnect

\* The whole program and its environment.  Its threads share little (the
\* main loop and the polling loop share no variable), so its state space is
\* the product of theirs; the properties below are checked on the parts
\* they are about: TradeSpec, PollSpec, TargetSpec, SymbolSpec and ConnSpec.
Next ==
    \/ Deliver(TickInputs, OrderOutcomes)
    \/ Poll
    \/ display_loop
    \/ Main
    \/ Tick
    \/ Drop
    \/ ServerToggle
    \/ \E s \in SymSet : ExchangeOpen(s)
    \/ \E s \in SymSet : ExchangeClose(s)
    \/ \E s \in SymSet, p \in ExOrderPrices : ExchangeOpenOrder(s, p)

Spec == Init /\ [][Next]_vars

\* The price callback on the events of the first symbol, the polling loop,
\* the dashboard, the clock and the exchange; events arrive at any time.
TradeNext ==
    \/ OnPrice(TradeTicks, OrderOutcomes)
    \/ Poll
    \/ display_loop
    \/ Tick
    \/ ExchangeClose(SYMBOLS[1])
    \/ \E p \in ExOrderPrices : ExchangeOpenOrder(SYMBOLS[1], p)

TradeSpec == Init /\ [][TradeNext]_vars

\* the threads of the program keep running and time passes; nothing is
\* assumed of the network, the exchange or the arrival of price updates
TradeFairSpec ==
    /\ TradeSpec
    /\ WF_vars(Poll)
    /\ WF_vars(Tick)

\* The polling loop, with positions of every symbol opened and closed on
\* the exchange, beside the dashboard and a price callback whose order
\* requests fail to connect.
PollNext ==
    \/ Poll
    \/ OnPrice(OneTick, {o \in OrderOutcomes : o.net = "connerr"})
    \/ display_loop
    \/ Tick
    \/ \E s \in SymSet : ExchangeOpen(s)
    \/ \E s \in SymSet : ExchangeClose(s)

PollSpec == Init /\ [][PollNext]_vars

\* The price callback alone, on events over a range of prices whose order
\* requests are answered at once.
TargetNext ==
    \/ OnPrice(TargetTicks,
               {[net |-> "response", d |-> 0, accepted |-> TRUE]})
    \/ Tick

TargetSpec == Init /\ [][TargetNext]_vars

\* the events of every symbol that arrives, configured or not, with a price
\* that is missing, the number 0, or 33.50
SymbolTicks ==
    RawSyms \X {[kind |-> "missing", v |-> 0], [kind |-> "num", v |-> 0],
                [kind |-> "str", v |-> 3350]}

\* The price callback on the events of every symbol, and the clock.
SymbolNext ==
    \/ OnPrice(SymbolTicks, OrderOutcomes)
    \/ Tick

SymbolSpec == Init /\ [][SymbolNext]_vars

\* The main loop and the streaming connection, with the events that arrive
\* over it.
ConnNext ==
    \/ Main
    \/ Drop
    \/ ServerToggle
    \/ Tick
    \/ Deliver(OneTick, OrderOutcomes)

ConnSpec == Init /\ [][ConnNext]_vars

\* the main thread keeps running and time passes
ConnFairSpec ==
    /\ ConnSpec
    /\ WF_vars(Main)
    /\ WF_vars(Tick)

(***************************************************************************)
(* Properties                                                              *)
(***************************************************************************)
\* C1, as stated: any two order requests sent for one symbol are at least
\* TRADE_COOLDOWN seconds apart.
C1_AnyTwoOrdersCooldownApart ==
    last_sent.gap # None => last_sent.gap >= TRADE_COOLDOWN

\* C1, amended: an order request sent for a symbol after a request for
\* which place_market_buy returned True is sent at least TRADE_COOLDOWN
\* seconds after that request (and after its completion, from which the
\* cooldown counts); a request that timed out starts no cooldown.
C1_CooldownAfterAcknowledgedOrder ==
    (last_sent.gap # None /\ last_sent.prev_ok)
        => last_sent.gap >= TRADE_COOLDOWN

\* a second order request has gone out for a symbol whose first request
\* was answered
C1_Witness ==
    /\ last_sent.gap # None
    /\ last_sent.prev_ok
    /\ last_sent.symbol = SYMBOLS[1]

\* the trigger price of sym as C2 defines it: RISE_PERCENT below the lowest
\* open BUY order the exchange holds for sym, normalized
ExchangeTrigger(sym) ==
    normalize_price(sym, SetMin(exOrders[sym]) * (100 - RISE_PERCENT),
                    100 * PriceScale)

\* this step sends an order request
OrderGoesOut == last_sent'.n # last_sent.n

\* C2, as stated: while a position is held for a symbol, an event whose
\* price is at or below the trigger price (RISE_PERCENT below the lowest
\* open BUY order of the symbol), handled after the cooldown, places an
\* additional market buy.
C2_AddOnDip ==
    [][\A tick \in TradeTicks :
         LET sym == tick[1]
             out == [net |-> "response", d |-> 0, accepted |-> TRUE]
         IN  ( /\ ~PriceFalsy(tick[2])
               /\ ~NoPosition(sym)
               /\ ~CooldownActive(sym)
               /\ exOrders[sym] # {}
               /\ tick[2].v > 0
               /\ tick[2].v <= ExchangeTrigger(sym)
               /\ on_price(sym, tick[2], out.net, out.d, out.accepted) )
             => OrderGoesOut
      ]_vars

\* C3, as stated: an open BUY order that the exchange holds for a symbol is
\* eventually in orders[sym].
C3_OrdersEventuallySeen ==
    \A sym \in SymSet :
        (exOrders[sym] # {})
            ~> ( /\ sym \in DOMAIN orders
                 /\ \E i \in 1..Len(orders[sym]) :
                       /\ orders[sym][i].side = "BUY"
                       /\ orders[sym][i].price \in exOrders[sym] )

\* C4: an event of a configured symbol with a price, handled while the
\* local position of the symbol is empty and its cooldown is over, calls
\* place_market_buy on that very event, whatever the open orders and the
\* trigger: the request of a FIRST buy goes out whenever the price gives a
\* quantity and the connection does not fail, and otherwise none goes out.
C4_FirstBuyOnTick ==
    [][\A sym \in SymSet :
         ( /\ DictGetPos(positions, sym) = PyNone
           /\ since_trade[sym] >= TRADE_COOLDOWN )
         => \A tick \in {t \in TradeTicks : t[1] = sym},
               out \in OrderOutcomes :
              ( /\ ~PriceFalsy(tick[2])
                /\ on_price(sym, tick[2], out.net, out.d, out.accepted) )
              => IF /\ tick[2].v > 0
                    /\ tick[2].v * MIN_QTY(sym)
                         <= CAPITAL_PER_TRADE * PriceScale * QtyScale
                    /\ out.net # "connerr"
                 THEN /\ OrderGoesOut
                      /\ last_sent'.branch = "first"
                      /\ last_sent'.symbol = sym
                      /\ last_sent'.price = tick[2].v
                 ELSE ~OrderGoesOut
      ]_vars

\* the request of a FIRST buy has gone out although the exchange holds an
\* open BUY order for the symbol and the local view has none
C4_Witness ==
    /\ last_sent.branch = "first"
    /\ last_sent.symbol = SYMBOLS[1]
    /\ exOrders[SYMBOLS[1]] # {}
    /\ since_trade[SYMBOLS[1]] = 0

\* what C5 says positions[sym] is after the response resp
C5_Expected(sym, resp) ==
    LET hits == {i \in 1..Len(resp.data) : resp.data[i].contractPair = sym}
    IN  IF resp.status = 200 /\ hits # {}
        THEN resp.data[CHOOSE i \in hits : \A j \in hits : i <= j]
        ELSE PyNone

\* C5: a completed request of the polling loop for a symbol leaves in
\* positions[sym] the first entry of the response for that symbol when the
\* status is 200 and there is one, and None otherwise; positions[sym] never
\* holds a position of another symbol.
C5_LocalPositions ==
    /\ [](\A sym \in DOMAIN positions :
            positions[sym] = PyNone \/ positions[sym].contractPair = sym)
    /\ [][\A resp \in PositionResponses(SYMBOLS[poll_idx]) :
            PollRequest(resp)
                => /\ SYMBOLS[poll_idx] \in DOMAIN positions'
                   /\ positions'[SYMBOLS[poll_idx]]
                        = C5_Expected(SYMBOLS[poll_idx], resp)
         ]_vars

\* the loop has stored the second position of the second symbol while the
\* exchange holds positions of the first symbol too
C5_Witness ==
    /\ SYMBOLS[2] \in DOMAIN positions
    /\ positions[SYMBOLS[2]] = [contractPair |-> SYMBOLS[2], positionId |-> 2]
    /\ exPos[SYMBOLS[1]] > 0
    /\ SYMBOLS[1] \in DOMAIN positions
    /\ positions[SYMBOLS[1]] = PyNone

\* an order request has been sent
SomeOrderSent == last_sent.side # ""

\* C6, as stated: every order request is a MARKET BUY whose takeProfitPrice
\* is strictly greater than its entry price.
C6_TakeProfitAboveEntry ==
    SomeOrderSent
        => /\ last_sent.side = "BUY"
           /\ last_sent.type = "MARKET"
           /\ last_sent.takeProfitPrice > last_sent.entry

\* C6, amended: every order request is a MARKET BUY; its entry is the mark
\* price at placement rounded to whole rupees, its takeProfitPrice is the
\* entry increased by TP_PERCENT rounded to whole rupees; the
\* takeProfitPrice is never below the entry, and it is strictly greater
\* exactly when the entry is at least 34 rupees.
C6_TakeProfitRounded ==
    SomeOrderSent
        => /\ last_sent.side = "BUY"
           /\ last_sent.type = "MARKET"
           /\ last_sent.entry % PriceScale = 0
           /\ 2 * (last_sent.entry - last_sent.price) <= PriceScale
           /\ 2 * (last_sent.price - last_sent.entry) <= PriceScale
           /\ last_sent.takeProfitPrice % PriceScale = 0
           /\ 2 * (1000 * last_sent.takeProfitPrice
                     - (1000 + TP_PERMILLE) * last_sent.entry)
                <= 1000 * PriceScale
           /\ 2 * ((1000 + TP_PERMILLE) * last_sent.entry
                     - 1000 * last_sent.takeProfitPrice)
                <= 1000 * PriceScale
           /\ last_sent.takeProfitPrice >= last_sent.entry
           /\ (last_sent.takeProfitPrice > last_sent.entry
                  <=> last_sent.entry >= 34 * PriceScale)

\* an order request has gone out with an entry of 34 rupees and a
\* takeProfitPrice of 35
C6_Witness ==
    /\ SomeOrderSent
    /\ last_sent.price = 3350
    /\ last_sent.entry = 34 * PriceScale
    /\ last_sent.takeProfitPrice = 35 * PriceScale
    /\ last_sent.gap # None

\* C7: the main loop never ends: when sio.connect or sio.wait raises it
\* sleeps RECONNECT_SLEEP seconds and connects again, when sio.wait returns
\* it connects again; and whenever the server stays reachable from some
\* point on, the client is connected again.
C7_BlindReconnect ==
    /\ [](pc_main \in {"connect", "wait", "sleep"})
    /\ [][ /\ (pc_main = "connect" /\ pc_main' # "connect")
                => \/ pc_main' = "wait" /\ ws' = "up"
                   \/ pc_main' = "sleep" /\ main_left' = RECONNECT_SLEEP
           /\ (pc_main = "wait" /\ pc_main' # "wait")
                => \/ pc_main' = "connect"
                   \/ pc_main' = "sleep" /\ main_left' = RECONNECT_SLEEP
           /\ (pc_main = "sleep" /\ pc_main' # "sleep")
                => pc_main' = "connect" /\ main_left = 0
         ]_vars
    /\ []<>(~serverUp \/ ws = "up")

\* the client is connected for the second time at least
C7_Witness ==
    /\ connects >= 2
    /\ ws = "up"
    /\ pc_main = "wait"

\* the subscribe request for the markPrice stream of every symbol
C8_FullSubscribe ==
    [event  |-> "subscribe",
     params |-> <<"xptinr@markPrice", "xpdinr@markPrice">>]

\* C8: whenever the connection is up, exactly one subscribe request has
\* been emitted on it, and it covers the markPrice stream of every symbol.
C8_SubscribedWhenConnected ==
    ws = "up" => emitted = <<C8_FullSubscribe>>

\* the connection is up for the second time at least
C8_Witness ==
    /\ ws = "up"
    /\ connects >= 2
    /\ Len(emitted) = 1

\* C9: the polling loop never ends: an exception in its try block sends it
\* to its sleep of POLL_SLEEP seconds, after which it polls every symbol
\* again from the first; a step in which the price callback stores a price
\* or sends an order, and a step of the dashboard, leave it where it is; and
\* it starts a new round again and again.
C9_PollLoopNeverStops ==
    /\ [](pc_poll \in {"request", "sleep"})
    /\ [][ /\ PollException
                => pc_poll' = "sleep" /\ poll_left' = POLL_SLEEP
           /\ (pc_poll = "sleep" /\ pc_poll' # "sleep")
                => /\ poll_left = 0
                   /\ pc_poll' = "request"
                   /\ poll_idx' = 1
           /\ (prices' # prices \/ last_sent' # last_sent \/ display_loop)
                => pc_poll' = pc_poll /\ poll_idx' = poll_idx
         ]_vars
    /\ []<>(pc_poll = "request" /\ poll_idx = 1)

\* the loop sleeps after an exception that left the second symbol unpolled
C9_Witness ==
    /\ pc_poll = "sleep"
    /\ poll_left = POLL_SLEEP
    /\ SYMBOLS[1] \in DOMAIN positions
    /\ SYMBOLS[2] \notin DOMAIN positions

\* C10, as stated: the request of a FIRST buy goes out for a symbol only
\* when the exchange holds no open position for that symbol.
C10_FirstBuyOnlyWithoutPosition ==
    last_sent.branch = "first" => ~last_sent.exHeld

\* C11: when a request of the polling loop raises, positions is left as it
\* is: the symbol whose request raised and the symbols after it keep their
\* previous values, the symbols polled before it keep the values just
\* written, and nothing is written until the loop wakes up again.  In every
\* step only the entry of the symbol being polled may change.
C11_ExceptionLeavesPositions ==
    /\ [][PollException => positions' = positions]_vars
    /\ [][(pc_poll = "request" /\ pc_poll' = "sleep"
                /\ poll_idx < Len(SYMBOLS))
            => positions' = positions]_vars
    /\ [][pc_poll = "sleep" => positions' = positions]_vars
    /\ [][\A sym \in SymSet :
            sym # SYMBOLS[poll_idx]
                => /\ (sym \in DOMAIN positions') = (sym \in DOMAIN positions)
                   /\ DictGetPos(positions', sym) = DictGetPos(positions, sym)
         ]_vars

\* the request for the second symbol raised after the second position of
\* the first symbol was stored: the loop sleeps, the first symbol has its
\* fresh value and the second symbol has none yet
C11_Witness ==
    /\ pc_poll = "sleep"
    /\ poll_left = POLL_SLEEP
    /\ SYMBOLS[1] \in DOMAIN positions
    /\ positions[SYMBOLS[1]]
         = [contractPair |-> SYMBOLS[1], positionId |-> 2]
    /\ SYMBOLS[2] \notin DOMAIN positions
    /\ exPos[SYMBOLS[2]] > 0

\* C12: last_trade[sym] is set to the present time by an event of sym
\* exactly when its order request went out and requests.post returned a
\* response, accepted by the exchange or not; otherwise it stays as it was,
\* so that after a call that returned False the cooldown is still over for
\* the next event.  While the cooldown of sym runs no order goes out for sym
\* and last_trade[sym] is not set.
C12_CooldownStartsOnResponse ==
    /\ [][\A sym \in SymSet :
            since_trade[sym] < TRADE_COOLDOWN
                => /\ OrderGoesOut => last_sent'.symbol # sym
                   /\ since_trade'[sym] >= since_trade[sym]
         ]_vars
    /\ [][\A sym \in SymSet :
            since_trade[sym] >= TRADE_COOLDOWN
                => \A tick \in {t \in TradeTicks : t[1] = sym},
                      out \in OrderOutcomes :
                     ( /\ ~PriceFalsy(tick[2])
                       /\ on_price(sym, tick[2], out.net, out.d,
                                   out.accepted) )
                     => /\ since_trade'[sym] = 0
                            <=> (OrderGoesOut /\ out.net = "response")
                        /\ since_trade'[sym] # 0
                            => since_trade'[sym] = since_trade[sym]
         ]_vars

\* the cooldown of the first symbol has just started on the response to
\* its first order request, and the exchange holds no position for it
C12_Witness ==
    /\ since_trade[SYMBOLS[1]] = 0
    /\ last_order[SYMBOLS[1]] = [sent |-> TRUE, age |-> 0, ok |-> TRUE]
    /\ last_sent.gap = None
    /\ exPos[SYMBOLS[1]] = 0

\* CAPITAL_PER_TRADE in the units of a quantity times a price
C13_Capital == CAPITAL_PER_TRADE * PriceScale * QtyScale

\* C13: the quantity of every order request is a positive whole multiple of
\* MIN_QTY[sym], the largest one not above CAPITAL_PER_TRADE / price, so that
\* quantity * price <= CAPITAL_PER_TRADE; and an event whose price leaves
\* CAPITAL_PER_TRADE / price below one step sends no order request.
C13_QuantityFloorOfCapital ==
    /\ [](SomeOrderSent
            => LET step == MIN_QTY(last_sent.symbol)
               IN  /\ last_sent.quantity > 0
                   /\ last_sent.quantity % step = 0
                   /\ last_sent.quantity * last_sent.price <= C13_Capital
                   /\ (last_sent.quantity + step) * last_sent.price
                        > C13_Capital)
    /\ [][\A sym \in DOMAIN prices' :
            ( /\ (sym \notin DOMAIN prices \/ prices'[sym] # prices[sym])
              /\ prices'[sym] > C13_Capital \div MIN_QTY(sym) )
            => ~OrderGoesOut
         ]_vars

\* an order request has gone out at 0.49 with a quantity of 20408.160, and
\* the event at 2,000,001.00 that followed after the cooldown sent none
C13_Witness ==
    /\ SomeOrderSent
    /\ last_sent.price = 49
    /\ last_sent.quantity = 20408160
    /\ prices[SYMBOLS[1]] = 200000100
    /\ since_trade[SYMBOLS[1]] = TRADE_COOLDOWN

\* C14: every order request is for a symbol of SYMBOLS; an event whose
\* symbol is not in SYMBOLS sends no order request and leaves last_trade and
\* positions as they are.
C14_OrdersOnlyForSymbols ==
    /\ [](SomeOrderSent => last_sent.symbol \in SymSet)
    /\ [][\A tick \in SymbolTicks :
            Upper(tick[1]) \notin SymSet
                => \A out \in OrderOutcomes :
                     on_price(tick[1], tick[2], out.net, out.d, out.accepted)
                        => /\ ~OrderGoesOut
                           /\ since_trade' = since_trade
                           /\ positions' = positions
         ]_vars

\* the price of a symbol that is not configured has been stored, after an
\* order request went out for the second symbol on an event in lower case
C14_Witness ==
    /\ \E sym \in OtherSyms : sym \in DOMAIN prices /\ prices[sym] = 3350
    /\ SomeOrderSent
    /\ last_sent.symbol = SYMBOLS[2]
    /\ DOMAIN since_trade = SymSet

\* C15, as stated: an event with a missing or empty symbol, or with a
\* missing, empty or zero price, leaves prices, positions, orders and
\* last_trade as they are and sends no order request; prices[sym] is never
\* None or zero once set.
C15_ZeroPriceIgnored ==
    /\ [][\A tick \in TradeTicks :
            (tick[1] = "" \/ PriceFalsy(tick[2]) \/ tick[2].v = 0)
                => \A out \in OrderOutcomes :
                     on_price(tick[1], tick[2], out.net, out.d, out.accepted)
                        => /\ UNCHANGED <<prices, positions, orders,
                                          since_trade>>
                           /\ ~OrderGoesOut
         ]_vars
    /\ [](\A sym \in DOMAIN prices :
            prices[sym] # None /\ prices[sym] # 0)

\* C16: an event of a symbol of SYMBOLS with a price stores the price of
\* that symbol and nothing else in prices, leaves positions and orders as
\* they are, and does not set last_trade of another symbol (the time since
\* its last trade only grows, by the duration of the call at most); and
\* with its own cooldown over and no local position, the symbol gets its
\* order request whatever the cooldown and the orders of the other symbols.
C16_SymbolsIndependent ==
    [][\A tick \in SymbolTicks :
         LET sym == Upper(tick[1])
         IN  (sym \in SymSet /\ ~PriceFalsy(tick[2]))
             => \A out \in OrderOutcomes :
                  on_price(tick[1], tick[2], out.net, out.d, out.accepted)
                     => /\ prices' = DictSet(prices, sym, tick[2].v)
                        /\ positions' = positions
                        /\ orders' = orders
                        /\ \A o \in SymSet \ {sym} :
                              /\ since_trade'[o] >= since_trade[o]
                              /\ since_trade'[o]
                                   <= Later(since_trade[o], REQUEST_TIMEOUT)
                        /\ ( /\ since_trade[sym] >= TRADE_COOLDOWN
                             /\ DictGetPos(positions, sym) = PyNone
                             /\ out.net # "connerr" )
                            => /\ OrderGoesOut
                               /\ last_sent'.symbol = sym
      ]_vars

\* the order requests of both symbols have just been answered: the second
\* went out while the cooldown of the first was running
C16_Witness ==
    /\ since_trade[SYMBOLS[1]] = 0
    /\ since_trade[SYMBOLS[2]] = 0
    /\ last_order[SYMBOLS[1]].ok
    /\ last_order[SYMBOLS[2]].ok

=============================================================================
